---- MODULE Spec2Model ----
(***************************************************************************)
(* Model of PhillyScraper (scraper.py): the catalog walker                 *)
(* (scrape_seasons / scrape_films), the stream resolver (__get_streams)    *)
(* and the per-concert / per-piece extraction (__extract_metadata).        *)
(*                                                                         *)
(* Texts on which the code applies str.strip / str.split are sequences of  *)
(* one-character strings; identifiers and urls, which the code only        *)
(* copies and compares, are plain strings.  A Python dict with optional    *)
(* keys is a function whose DOMAIN is the set of keys present.             *)
(***************************************************************************)
EXTENDS Integers, Sequences, FiniteSets, TLC

\* ------------------------------------------------------------------------
\* Bounds of the model
\* ------------------------------------------------------------------------
MaxHeader == 4
MaxFragment == 5
MaxCandidates == 2
MaxSeasons == 2
MaxListing == 2
MaxFilms == 3

\* ------------------------------------------------------------------------
\* Text helpers
\* ------------------------------------------------------------------------
Whitespace == {" "}

RECURSIVE LStrip(_)
LStrip(s) ==
  IF s # <<>> /\ Head(s) \in Whitespace THEN LStrip(Tail(s)) ELSE s

RECURSIVE RStrip(_)
RStrip(s) ==
  IF s # <<>> /\ s[Len(s)] \in Whitespace
  THEN RStrip(SubSeq(s, 1, Len(s) - 1)) ELSE s

\* str.strip()
Strip(s) == RStrip(LStrip(s))

RECURSIVE WordLen(_)
WordLen(s) ==
  IF s = <<>> \/ Head(s) \in Whitespace THEN 0 ELSE 1 + WordLen(Tail(s))

\* str.split() with no argument: the maximal runs of non-whitespace
RECURSIVE Split(_)
Split(s) ==
  IF s = <<>> THEN <<>>
  ELSE IF Head(s) \in Whitespace THEN Split(Tail(s))
  ELSE LET n == WordLen(s)
       IN  <<SubSeq(s, 1, n)>> \o Split(SubSeq(s, n + 1, Len(s)))

\* sep.join(parts)
RECURSIVE Join(_, _)
Join(sep, parts) ==
  IF parts = <<>> THEN <<>>
  ELSE IF Len(parts) = 1 THEN parts[1]
  ELSE parts[1] \o sep \o Join(sep, Tail(parts))

\* A parsed node: an element (name = its tag name) or a text leaf
\* (name = "text", for which bs4 reports tag.name = None).  text is the
\* node's .text (the string itself for a leaf; a br has none).
Node(n, t) == [name |-> n, text |-> t]

\* __extract_text: ' '.join(page_element.text.split()), same for a leaf
ExtractText(node) == Join(<<" ">>, Split(node.text))

\* ''.join(map(self.__extract_text, nodes)).strip()
RECURSIVE JoinTexts(_)
JoinTexts(nodes) ==
  IF nodes = <<>> THEN <<>> ELSE ExtractText(Head(nodes)) \o JoinTexts(Tail(nodes))

JoinedText(nodes) == Strip(JoinTexts(nodes))

\* d[k] = v on a dict
Put(d, k, v) == [x \in (DOMAIN d) \cup {k} |-> IF x = k THEN v ELSE d[x]]

Has(d, k) == k \in DOMAIN d

\* ------------------------------------------------------------------------
\* Stream resolver
\* ------------------------------------------------------------------------
\* The except arms of every fetch (requests raises one of these)
FetchErrors == {"HTTPError", "ConnectionError", "Timeout", "RequestException"}

Exited == [kind |-> "exit", code |-> -1]

\* An exception no handler catches: Python prints the traceback, status 1
Raised(exc) == [kind |-> "raise", exc |-> exc, code |-> 1]

\* a variant that takes the last candidate of each list
GetStreamsLast(resp) ==
  IF resp.status \in FetchErrors THEN Exited
  ELSE IF ~resp.json THEN Exited
  ELSE IF ~resp.body.success THEN Exited
  ELSE IF \E k \in DOMAIN resp.body.urls : resp.body.urls[k] = <<>>
       THEN Raised("IndexError")
  ELSE [kind |-> "ok",
        streams |-> [k \in DOMAIN resp.body.urls |->
                       resp.body.urls[k][Len(resp.body.urls[k])].url]]

\* a variant that does not look at the success flag
GetStreamsAnyEnvelope(resp) ==
  IF resp.status \in FetchErrors THEN Exited
  ELSE IF ~resp.json THEN Exited
  ELSE IF \E k \in DOMAIN resp.body.urls : resp.body.urls[k] = <<>>
       THEN Raised("IndexError")
  ELSE [kind |-> "ok",
        streams |-> [k \in DOMAIN resp.body.urls |-> resp.body.urls[k][1].url]]

\* __get_streams on the response of the stream-lookup endpoint.
\* resp.status is "ok" or a member of FetchErrors; resp.json tells whether
\* the body parses as JSON; resp.body is the decoded envelope.
GetStreams(resp) ==
  IF resp.status \in FetchErrors THEN Exited
  ELSE IF ~resp.json THEN Exited
  ELSE IF ~resp.body.success THEN Exited
  ELSE IF \E k \in DOMAIN resp.body.urls : resp.body.urls[k] = <<>>
       THEN Raised("IndexError")
  ELSE [kind |-> "ok",
        streams |-> [k \in DOMAIN resp.body.urls |-> resp.body.urls[k][1].url]]

\* ------------------------------------------------------------------------
\* Piece extraction (the body of the loop over 'ul.list-lines > li')
\* ------------------------------------------------------------------------
NOT_FOUND == "not-found"
KEINE_ROLLE == <<"K", "E", "I", "N", "E", " ", "R", "O", "L", "L", "E">>
KEINER == <<"K", "E", "I", "N", "E", "R">>

\* a variant with an empty string where the sentinel belongs
StreamUrlOfEmpty(id, streams) ==
  IF id \in DOMAIN streams THEN streams[id] ELSE ""

\* pieceDict['streamUrl'] for a sub-item id
StreamUrlOf(id, streams) ==
  IF id \in DOMAIN streams THEN streams[id] ELSE NOT_FOUND

\* a variant that keeps the first composer it meets
RECURSIVE ScanHeaderKeepFirst(_, _, _)
ScanHeaderKeepFirst(headers, idx, d) ==
  IF idx > Len(headers) THEN d
  ELSE IF headers[idx].name = "strong"
       THEN ScanHeaderKeepFirst(headers, idx + 1,
              IF Has(d, "composer") THEN d
              ELSE Put(d, "composer", Strip(headers[idx].text)))
  ELSE IF headers[idx].name = "br"
       THEN Put(d, "description", JoinedText(SubSeq(headers, idx + 1, Len(headers))))
  ELSE ScanHeaderKeepFirst(headers, idx + 1, d)

\* for idx, tag in enumerate(headers): ... break
RECURSIVE ScanHeader(_, _, _)
ScanHeader(headers, idx, d) ==
  IF idx > Len(headers) THEN d
  ELSE IF headers[idx].name = "strong"
       THEN ScanHeader(headers, idx + 1, Put(d, "composer", Strip(headers[idx].text)))
  ELSE IF headers[idx].name = "br"
       THEN Put(d, "description", JoinedText(SubSeq(headers, idx + 1, Len(headers))))
  ELSE ScanHeader(headers, idx + 1, d)

\* a variant whose fallback only asks for a missing description
HeaderFieldsNoDescription(headers, d) ==
  LET s == ScanHeader(headers, 1, d)
  IN  IF ~Has(s, "description")
      THEN Put(s, "description", JoinedText(headers))
      ELSE s

\* header loop followed by the whole-header fallback
HeaderFields(headers, d) ==
  LET s == ScanHeader(headers, 1, d)
  IN  IF ~Has(s, "composer") /\ ~Has(s, "description")
      THEN Put(s, "description", JoinedText(headers))
      ELSE s

\* key of the groupby: str(x).strip() != ','  (str of an element is its
\* markup, which is never a bare comma)
NotComma(node) == ~(node.name = "text" /\ Strip(node.text) = <<",">>)

\* groupby(artists.contents, key) restricted to the groups whose key is
\* True: the maximal runs of nodes that are not bare commas
RECURSIVE GroupBy(_, _)
GroupBy(contents, cur) ==
  IF contents = <<>>
  THEN IF cur = <<>> THEN <<>> ELSE <<cur>>
  ELSE IF NotComma(Head(contents))
       THEN GroupBy(Tail(contents), Append(cur, Head(contents)))
       ELSE (IF cur = <<>> THEN <<>> ELSE <<cur>>) \o GroupBy(Tail(contents), <<>>)

\* __make_dict
RECURSIVE MakeDictFrom(_, _)
MakeDictFrom(group, ret) ==
  IF group = <<>> THEN ret
  ELSE IF Head(group).name = "strong"
       THEN MakeDictFrom(Tail(group), [ret EXCEPT !.player = Strip(Head(group).text)])
  ELSE IF Head(group).name = "em"
       THEN MakeDictFrom(Tail(group), [ret EXCEPT !.role = Strip(Head(group).text)])
  ELSE MakeDictFrom(Tail(group), ret)

MakeDict(group) == MakeDictFrom(group, [role |-> KEINE_ROLLE, player |-> KEINER])

ArtistList(contents) ==
  LET gs == GroupBy(contents, <<>>) IN [i \in 1..Len(gs) |-> MakeDict(gs[i])]

\* temp[role].append(player) / temp[role] = [player]; temp keeps the
\* insertion order of its keys, so it is a sequence of (role, names)
RoleIndex(temp, role) ==
  IF \E i \in 1..Len(temp) : temp[i].role = role
  THEN CHOOSE i \in 1..Len(temp) : temp[i].role = role
  ELSE 0

\* a variant that opens a new entry for every group
FoldStepNoMerge(temp, d) ==
  Append(temp, [role |-> d.role, names |-> <<d.player>>])

FoldStep(temp, d) ==
  LET i == RoleIndex(temp, d.role)
  IN  IF i # 0
      THEN [temp EXCEPT ![i].names = Append(@, d.player)]
      ELSE Append(temp, [role |-> d.role, names |-> <<d.player>>])

RECURSIVE FoldByRole(_, _)
FoldByRole(artistList, temp) ==
  IF artistList = <<>> THEN temp
  ELSE FoldByRole(Tail(artistList), FoldStep(temp, Head(artistList)))

\* the guard on artistList
NotDegenerate(artistList) ==
  \/ Len(artistList) # 1
  \/ artistList[1].role # KEINE_ROLLE
  \/ artistList[1].player # KEINER

\* a variant without the test on len(pieceArtists)
ArtistFieldsNoGuard(contents, d) ==
  LET artistList == ArtistList(contents)
  IN  IF NotDegenerate(artistList)
      THEN Put(d, "artists", FoldByRole(artistList, <<>>))
      ELSE d

\* lines 208-226: the artists field, if any, added to pieceDict
ArtistFields(contents, d) ==
  LET artistList == ArtistList(contents)
  IN  IF NotDegenerate(artistList)
      THEN LET pieceArtists == FoldByRole(artistList, <<>>)
           IN  IF Len(pieceArtists) # 0 THEN Put(d, "artists", pieceArtists) ELSE d
      ELSE d

\* One iteration of the piece loop.  piece.hasWork: the li has a
\* div.jsConcertWork; piece.hasH2: it has an h2; piece.hasP: it has a p.
ExtractPiece(piece, streams) ==
  IF ~piece.hasWork THEN Raised("TypeError")
  ELSE IF ~piece.hasH2 THEN Raised("AttributeError")
  ELSE LET d1 == [pieceId |-> piece.id, streamUrl |-> StreamUrlOf(piece.id, streams)]
           d2 == HeaderFields(piece.h2, d1)
       IN  [kind |-> "ok",
            dict |-> IF ~piece.hasP THEN d2 ELSE ArtistFields(piece.p, d2)]

\* ------------------------------------------------------------------------
\* Concert extraction (__extract_metadata after the stream lookup)
\* ------------------------------------------------------------------------
\* Stand-ins for U+2019 (right single quotation mark) and U+2013 (en dash)
RSQUO == "q"
NDASH == "n"

\* str.replace(old, new) for one-character old and new
Replace(s, old, new) == [i \in 1..Len(s) |-> IF s[i] = old THEN new ELSE s[i]]

\* the result of select_one: <<>> for None, <<x>> for a match
IsNone(opt) == opt = <<>>
The(opt) == opt[1]

\* tag.text.replace(u'’', "'").strip()
QuotedText(t) == Strip(Replace(t, RSQUO, "'"))

\* the piece loop: the pieces in document order, or the first exception
RECURSIVE ExtractPieces(_, _, _)
ExtractPieces(pieces, streams, acc) ==
  IF pieces = <<>> THEN [kind |-> "ok", list |-> acc]
  ELSE LET r == ExtractPiece(Head(pieces), streams)
       IN  IF r.kind = "ok"
           THEN ExtractPieces(Tail(pieces), streams, Append(acc, r.dict))
           ELSE r

\* lines 138-148
TitleFields(page, d) ==
  LET d1 == IF IsNone(page.h1) THEN d
            ELSE Put(d, "concertTitle", QuotedText(The(page.h1)))
      d2 == IF IsNone(page.description) THEN d1
            ELSE Put(d1, "concertProgramme", QuotedText(The(page.description)))
  IN  IF IsNone(page.tabs1) THEN d2
      ELSE Put(d2, "concertProgrammeGuide", QuotedText(The(page.tabs1)))

\* lines 150-155; metaElms are the contents of p.concertMeta
MetaFields(metaElms, d) ==
  LET d1 == Put(d, "concertDate", Strip(Replace(metaElms[1].text, NDASH, "-")))
  IN  IF Len(metaElms) = 3
      THEN Put(d1, "concertMeta",
               Replace(Join(<<" ">>, Split(metaElms[3].text)), RSQUO, "'"))
      ELSE d1

\* lines 157-168; mainElms are the contents of p.mainArtist
MainArtistFields(mainElms, d) ==
  LET d1 == IF mainElms = <<>> THEN d
            ELSE Put(d, "mainArtist", Strip(mainElms[1].text))
  IN  IF Len(mainElms) = 3
      THEN Put(d1, "conductor", Join(<<" ">>, Split(mainElms[3].text)))
      ELSE d1

\* lines 170-176
StarSupportFields(page, d) ==
  LET d1 == IF Len(page.starArtists) # 0
            THEN Put(d, "starArtists",
                     [i \in 1..Len(page.starArtists) |->
                        Join(<<" ">>, Split(page.starArtists[i]))])
            ELSE d
  IN  IF IsNone(page.support) THEN d1
      ELSE Put(d1, "support", Strip(The(page.support)))

\* __extract_metadata, given the stream map already resolved
ExtractMetadata(concert_id, page, streams) ==
  LET d0 == TitleFields(page, [concertId |-> concert_id])
  IN  IF IsNone(page.concertMeta) THEN Raised("AttributeError")
      ELSE IF The(page.concertMeta) = <<>> THEN Raised("IndexError")
      ELSE IF The(page.concertMeta)[1].name # "text" THEN Raised("TypeError")
      ELSE IF Len(The(page.concertMeta)) = 3 /\ The(page.concertMeta)[3].name # "text"
           THEN Raised("TypeError")
      ELSE IF IsNone(page.mainArtist) THEN Raised("AttributeError")
      ELSE LET d1 == MetaFields(The(page.concertMeta), d0)
               d2 == MainArtistFields(The(page.mainArtist), d1)
               d3 == StarSupportFields(page, d2)
               ps == ExtractPieces(page.pieces, streams, <<>>)
           IN  IF ps.kind = "ok"
               THEN [kind |-> "ok", dict |-> Put(d3, "pieces", ps.list)]
               ELSE ps

\* ------------------------------------------------------------------------
\* Film extraction (__handle_film after both fetches)
\* ------------------------------------------------------------------------
\* lines 419-439: film_dict is the catalog entry, updated in place
FilmFields(film_dict, page, streams) ==
  LET d1 == Put(film_dict, "streamUrl", StreamUrlOf(film_dict.film_id, streams))
      d2 == IF IsNone(page.subtitle) THEN d1
            ELSE Put(d1, "subtitle", Strip(The(page.subtitle)))
      d3 == IF Len(page.actors) # 0
            THEN Put(d2, "actors", [i \in 1..Len(page.actors) |-> Strip(page.actors[i])])
            ELSE d2
      d4 == IF IsNone(page.tabs0) THEN d3
            ELSE Put(d3, "description", Strip(The(page.tabs0)))
  IN  IF IsNone(page.tabs2) THEN d4
      ELSE Put(d4, "credits", Strip(The(page.tabs2)))

\* ------------------------------------------------------------------------
\* Inputs: what the provider may answer
\* ------------------------------------------------------------------------
Ids == {"1", "2"}
SeasonIds == <<"s1", "s2", "s3", "s4">>
PieceIds == {"p1", "p2"}
Urls == {"u1", "u2", "u3"}

SampleText == <<" ", "a", RSQUO, " ", " ", "b", " ">>
SampleLabel == <<"1", "9", NDASH, "2", "0">>

SeqsUpTo(S, n) == UNION {[1..k -> S] : k \in 0..n}

\* the JSON envelopes of the stream-lookup endpoint over the given keys
NoEnvelope == [success |-> FALSE, urls |-> [k \in {} |-> <<>>]]
Envelopes(keys, urls, n) ==
  {NoEnvelope}
  \cup {[success |-> TRUE, urls |-> m] :
          m \in UNION {[S -> SeqsUpTo([url : urls], n)] : S \in SUBSET keys}}

TextNode(t) == Node("text", t)
BrNode == Node("br", <<>>)

\* header nodes and artist-fragment nodes
HeaderTexts == {<<>>, <<"a">>, <<" ", "a", " ", " ", "b">>, <<" ">>}
HeaderNodes ==
  {Node(n, t) : n \in {"strong", "text", "span"}, t \in HeaderTexts} \cup {BrNode}

PlayerTexts == {<<"P">>, <<" ", "Q", " ">>, KEINER}
RoleTexts == {<<"r">>, <<"s">>, KEINE_ROLLE}
LeafTexts == {<<",">>, <<" ", ",", " ">>, <<"x">>}
FragmentNodes ==
  {Node("strong", t) : t \in PlayerTexts}
  \cup {Node("em", t) : t \in RoleTexts}
  \cup {Node("text", t) : t \in LeafTexts}

\* a piece entry (li) of a concert page
Piece(id, work, h2, header, p, contents) ==
  [id |-> id, hasWork |-> work, hasH2 |-> h2, h2 |-> header, hasP |-> p, p |-> contents]

PlainPiece ==
  Piece("p2", TRUE, TRUE, <<TextNode(<<"a", " ", " ", "b">>)>>, FALSE, <<>>)

SamplePiece ==
  Piece("p1", TRUE, TRUE,
        <<Node("strong", <<"a">>), BrNode, TextNode(<<"b">>)>>,
        TRUE, <<Node("strong", <<"P">>), Node("em", <<"r">>)>>)

\* contents of p.concertMeta and p.mainArtist (None: the p is not on the
\* page).  The third node of p.mainArtist is an element, as .text needs.
MetaContents ==
  {<<>>, <<TextNode(SampleLabel)>>, <<TextNode(SampleLabel), BrNode>>,
   <<TextNode(SampleLabel), BrNode, TextNode(SampleText)>>, <<BrNode>>}
MainContents ==
  {<<>>, <<TextNode(SampleText)>>, <<Node("strong", SampleText)>>,
   <<TextNode(SampleText), BrNode, Node("span", SampleText)>>}

Option(S) == {<<>>} \cup {<<x>> : x \in S}

ConcertPage(h1, desc, tabs1, meta, main, stars, support, pieces) ==
  [h1 |-> h1, description |-> desc, tabs1 |-> tabs1, concertMeta |-> meta,
   mainArtist |-> main, starArtists |-> stars, support |-> support,
   pieces |-> pieces]

FilmPage(subtitle, actors, tabs0, tabs2) ==
  [subtitle |-> subtitle, actors |-> actors, tabs0 |-> tabs0, tabs2 |-> tabs2]

\* pages the walker is served: a concert page with every fragment present
\* and one with no optional fragment, which also lacks p.mainArtist
FullPage ==
  ConcertPage(<<SampleText>>, <<SampleText>>, <<SampleText>>,
              <<<<TextNode(SampleLabel), BrNode, TextNode(SampleText)>>>>,
              <<<<TextNode(SampleText), BrNode, Node("span", SampleText)>>>>,
              <<SampleText>>, <<SampleText>>, <<SamplePiece, PlainPiece>>)
NoMainArtistPage ==
  ConcertPage(<<>>, <<>>, <<>>, <<<<TextNode(SampleLabel)>>>>, <<>>, <<>>, <<>>, <<>>)
WalkerPages == {FullPage, NoMainArtistPage}

BareFilmPage == FilmPage(<<>>, <<>>, <<>>, <<>>)
FullFilmPage == FilmPage(<<SampleText>>, <<SampleText>>, <<SampleText>>, <<SampleText>>)
WalkerFilmPages == {BareFilmPage, FullFilmPage}

WalkerUrls == {"u1"}

\* the envelopes the walker is served for a concert: success = false, or a
\* map with piece p1 (its candidate list possibly empty) and without p2
ConcertEnvelopes ==
  {e \in Envelopes({"p1"}, WalkerUrls, 1) : ~e.success \/ "p1" \in DOMAIN e.urls}

\* the id lists a run may be constructed with
SeenLists == {{}, {"1"}}

\* ------------------------------------------------------------------------
\* State
\* ------------------------------------------------------------------------
VARIABLES
  pc,               \* position of the process
  concert_id_list,  \* self.__concert_id_list (only membership is used)
  film_id_list,     \* self.__film_id_list
  data,             \* self.__data, the output batch
  all_seasons,      \* seasons of scrape_seasons still to handle
  season_dict,      \* the season being built by __handle_season
  concerts,         \* concerts of that season still to handle
  all_films,        \* films of scrape_films still to handle
  cur,              \* the item whose page was fetched: <<>> or <<[id, page]>>
  files,            \* files written: sequence of [name, content]
  exit_code,        \* exit status of the process, once it has ended
  fetches,          \* history: the requests issued, [kind, id, failed]
  catalog,          \* history: item ids the listings gave, in order
  handled,          \* history: [id, fate] of the items gone through
  arg,              \* input of the function under study
  ret               \* its result

walker == <<pc, concert_id_list, film_id_list, data, all_seasons, season_dict,
            concerts, all_films, cur, files, exit_code, fetches, catalog, handled>>
walker_rest == <<concert_id_list, film_id_list, data, all_seasons, season_dict,
                 concerts, all_films, cur, files, exit_code, fetches, catalog, handled>>
vars == <<pc, concert_id_list, film_id_list, data, all_seasons, season_dict,
          concerts, all_films, cur, files, exit_code, fetches, catalog, handled,
          arg, ret>>

NoSeason == [seasonId |-> "", season |-> <<>>, concerts |-> <<>>]

\* __init__: the two id lists are read; nothing else has happened
Init ==
  /\ pc = "idle"
  /\ concert_id_list \in SeenLists
  /\ film_id_list \in SeenLists
  /\ data = <<>>
  /\ all_seasons = <<>>
  /\ season_dict = NoSeason
  /\ concerts = <<>>
  /\ all_films = <<>>
  /\ cur = <<>>
  /\ files = <<>>
  /\ exit_code = 0
  /\ fetches = <<>>
  /\ catalog = <<>>
  /\ handled = <<>>
  /\ arg = <<>>
  /\ ret = <<>>

\* history entries: a request and whether its answer was a failure; an item
\* gone through, its fate and the stream map resolved for it
Fetch(kind, id, failed) == [kind |-> kind, id |-> id, failed |-> failed]
NoStreams == [k \in {} |-> ""]
Handled(id, fate, streams) == [id |-> id, fate |-> fate, streams |-> streams]

\* sys.exit(-1) in an except arm / an uncaught exception
Exit(code) ==
  /\ pc' = "exited"
  /\ exit_code' = code

\* __write_output
WriteOutput(out_name) == files' = Append(files, [name |-> out_name, content |-> data])

\* ------------------------------------------------------------------------
\* What a response is, independently of what the code does with it
\* ------------------------------------------------------------------------
Response(status, json, body) == [status |-> status, json |-> json, body |-> body]

\* the answers to one request: each error of the transport (the body, which
\* the code never reads then, is 'none'), for a JSON endpoint a body that is
\* not JSON, and each of the given bodies
Responses(bodies, none, isJson) ==
  {Response(e, TRUE, none) : e \in FetchErrors}
  \cup (IF isJson THEN {Response("ok", FALSE, none)} ELSE {})
  \cup {Response("ok", TRUE, b) : b \in bodies}

\* transport error, timeout or non-2xx status
BadTransport(resp) == resp.status \in FetchErrors
\* ... or a body that is not JSON where JSON is expected
BadJson(resp) == BadTransport(resp) \/ ~resp.json
\* ... or a stream envelope with success = false
BadStreams(resp) == BadJson(resp) \/ ~resp.body.success

\* ------------------------------------------------------------------------
\* The fetches of the walker
\* ------------------------------------------------------------------------
\* the try/except around an HTML page fetch (season listing, concert page,
\* films index, film page)
GetPage(resp) ==
  IF resp.status \in FetchErrors THEN Exited ELSE [kind |-> "ok", body |-> resp.body]

\* __get_seasons
GetSeasons(resp) ==
  IF resp.status \in FetchErrors THEN Exited
  ELSE IF ~resp.json THEN Exited
  ELSE [kind |-> "ok", items |-> resp.body]

SeasonItem(id) == [id |-> id, label |-> SampleLabel]
FilmItem(id) == [film_id |-> id, title |-> "title"]

\* the season index (the 'items' of the JSON) and the films index
SeasonLists ==
  {[i \in 1..k |-> SeasonItem(SeasonIds[i])] : k \in 0..MaxSeasons}
FilmLists ==
  {[i \in 1..Len(ids) |-> FilmItem(ids[i])] : ids \in SeqsUpTo(Ids, MaxFilms)}

\* ------------------------------------------------------------------------
\* scrape_seasons
\* ------------------------------------------------------------------------
\* scrape_seasons up to the loop: reset __data, fetch the season index
ScrapeSeasons ==
  /\ pc = "idle"
  /\ data' = <<>>
  /\ \E resp \in Responses(SeasonLists, <<>>, TRUE) :
       LET r == GetSeasons(resp)
       IN  /\ fetches' = Append(fetches, Fetch("seasons", "", BadJson(resp)))
           /\ IF r.kind = "ok"
              THEN /\ all_seasons' = r.items
                   /\ pc' = "seasons"
                   /\ UNCHANGED exit_code
              ELSE /\ Exit(r.code)
                   /\ UNCHANGED all_seasons
  /\ UNCHANGED <<concert_id_list, film_id_list, season_dict, concerts, all_films,
                 cur, files, catalog, handled, arg, ret>>

\* __handle_season up to its loop: fetch the listing of the next season
HandleSeason ==
  /\ pc = "seasons"
  /\ all_seasons # <<>>
  /\ \E resp \in Responses(SeqsUpTo(Ids, MaxListing), <<>>, FALSE) :
       LET season == Head(all_seasons)
           r == GetPage(resp)
       IN  /\ fetches' = Append(fetches, Fetch("season", season.id, BadTransport(resp)))
           /\ IF r.kind = "ok"
              THEN /\ season_dict' = [seasonId |-> season.id,
                                      season |-> Replace(season.label, NDASH, "-"),
                                      concerts |-> <<>>]
                   /\ concerts' = r.body
                   /\ catalog' = catalog \o r.body
                   /\ pc' = "concerts"
                   /\ UNCHANGED exit_code
              ELSE /\ Exit(r.code)
                   /\ UNCHANGED <<season_dict, concerts, catalog>>
  /\ UNCHANGED <<concert_id_list, film_id_list, data, all_seasons, all_films,
                 cur, files, handled, arg, ret>>

\* a variant that consults the other id list
ConcertSeenOtherList(concert_id) == concert_id \in film_id_list

\* the membership test of __handle_concert
ConcertSeen(concert_id) == concert_id \in concert_id_list

\* __handle_concert up to the page fetch: skip a seen id, else fetch the page
HandleConcert ==
  /\ pc = "concerts"
  /\ concerts # <<>>
  /\ LET concert_id == Head(concerts)
     IN  IF ConcertSeen(concert_id)
         THEN /\ concerts' = Tail(concerts)
              /\ handled' = Append(handled, Handled(concert_id, "skipped", NoStreams))
              /\ UNCHANGED <<pc, cur, fetches, exit_code>>
         ELSE \E resp \in Responses(WalkerPages, FullPage, FALSE) :
                LET r == GetPage(resp)
                IN  /\ fetches' = Append(fetches, Fetch("concert", concert_id, BadTransport(resp)))
                    /\ IF r.kind = "ok"
                       THEN /\ cur' = <<[id |-> concert_id, page |-> r.body]>>
                            /\ pc' = "extract"
                            /\ UNCHANGED exit_code
                       ELSE /\ Exit(r.code)
                            /\ UNCHANGED cur
                    /\ UNCHANGED <<concerts, handled>>
  /\ UNCHANGED <<concert_id_list, film_id_list, data, all_seasons, season_dict,
                 all_films, files, catalog, arg, ret>>

\* __extract_metadata: stream lookup, extraction, append to the season
ExtractConcert ==
  /\ pc = "extract"
  /\ \E resp \in Responses(ConcertEnvelopes, NoEnvelope, TRUE) :
       LET item == The(cur)
           st == GetStreams(resp)
           r == IF st.kind = "ok" THEN ExtractMetadata(item.id, item.page, st.streams)
                ELSE st
       IN  /\ fetches' = Append(fetches, Fetch("streams", item.id, BadStreams(resp)))
           /\ IF r.kind = "ok"
              THEN /\ season_dict' = [season_dict EXCEPT !.concerts = Append(@, r.dict)]
                   /\ concerts' = Tail(concerts)
                   /\ handled' = Append(handled, Handled(item.id, "accumulated", st.streams))
                   /\ cur' = <<>>
                   /\ pc' = "concerts"
                   /\ UNCHANGED exit_code
              ELSE /\ Exit(r.code)
                   /\ UNCHANGED <<season_dict, concerts, handled, cur>>
  /\ UNCHANGED <<concert_id_list, film_id_list, data, all_seasons, all_films,
                 files, catalog, arg, ret>>

\* end of __handle_season: the season joins the batch
FinishSeason ==
  /\ pc = "concerts"
  /\ concerts = <<>>
  /\ data' = Append(data, season_dict)
  /\ all_seasons' = Tail(all_seasons)
  /\ season_dict' = NoSeason
  /\ pc' = "seasons"
  /\ UNCHANGED <<concert_id_list, film_id_list, concerts, all_films, cur, files,
                 exit_code, fetches, catalog, handled, arg, ret>>

\* end of scrape_seasons: the one write, then normal exit
WriteSeasons ==
  /\ pc = "seasons"
  /\ all_seasons = <<>>
  /\ WriteOutput("seasons")
  /\ pc' = "done"
  /\ UNCHANGED <<concert_id_list, film_id_list, data, all_seasons, season_dict,
                 concerts, all_films, cur, exit_code, fetches, catalog, handled,
                 arg, ret>>

\* ------------------------------------------------------------------------
\* scrape_films
\* ------------------------------------------------------------------------
\* scrape_films up to the loop: reset __data, fetch the films index
ScrapeFilms ==
  /\ pc = "idle"
  /\ data' = <<>>
  /\ \E resp \in Responses(FilmLists, <<>>, FALSE) :
       LET r == GetPage(resp)
       IN  /\ fetches' = Append(fetches, Fetch("films", "", BadTransport(resp)))
           /\ IF r.kind = "ok"
              THEN /\ all_films' = r.body
                   /\ catalog' = [i \in 1..Len(r.body) |-> r.body[i].film_id]
                   /\ pc' = "films"
                   /\ UNCHANGED exit_code
              ELSE /\ Exit(r.code)
                   /\ UNCHANGED <<all_films, catalog>>
  /\ UNCHANGED <<concert_id_list, film_id_list, all_seasons, season_dict, concerts,
                 cur, files, handled, arg, ret>>

\* the membership test of __handle_film
FilmSeen(film_id) == film_id \in film_id_list

\* __handle_film up to the page fetch: skip a seen id, else fetch the page
HandleFilm ==
  /\ pc = "films"
  /\ all_films # <<>>
  /\ LET film_id == Head(all_films).film_id
     IN  IF FilmSeen(film_id)
         THEN /\ all_films' = Tail(all_films)
              /\ handled' = Append(handled, Handled(film_id, "skipped", NoStreams))
              /\ UNCHANGED <<pc, cur, fetches, exit_code>>
         ELSE \E resp \in Responses(WalkerFilmPages, BareFilmPage, FALSE) :
                LET r == GetPage(resp)
                IN  /\ fetches' = Append(fetches, Fetch("film", film_id, BadTransport(resp)))
                    /\ IF r.kind = "ok"
                       THEN /\ cur' = <<[id |-> film_id, page |-> r.body]>>
                            /\ pc' = "film_streams"
                            /\ UNCHANGED exit_code
                       ELSE /\ Exit(r.code)
                            /\ UNCHANGED cur
                    /\ UNCHANGED <<all_films, handled>>
  /\ UNCHANGED <<concert_id_list, film_id_list, data, all_seasons, season_dict,
                 concerts, files, catalog, arg, ret>>

\* rest of __handle_film: stream lookup, fields, append to the batch
ExtractFilm ==
  /\ pc = "film_streams"
  /\ \E resp \in Responses(Envelopes({The(cur).id}, WalkerUrls, 1), NoEnvelope, TRUE) :
       LET item == The(cur)
           st == GetStreams(resp)
       IN  /\ fetches' = Append(fetches, Fetch("streams", item.id, BadStreams(resp)))
           /\ IF st.kind = "ok"
              THEN /\ data' = Append(data, FilmFields(Head(all_films), item.page, st.streams))
                   /\ all_films' = Tail(all_films)
                   /\ handled' = Append(handled, Handled(item.id, "accumulated", st.streams))
                   /\ cur' = <<>>
                   /\ pc' = "films"
                   /\ UNCHANGED exit_code
              ELSE /\ Exit(st.code)
                   /\ UNCHANGED <<data, all_films, handled, cur>>
  /\ UNCHANGED <<concert_id_list, film_id_list, all_seasons, season_dict, concerts,
                 files, catalog, arg, ret>>

\* a variant that writes whatever the batch holds, films left or not
WriteFilmsEarly ==
  /\ pc = "films"
  /\ WriteOutput("films")
  /\ pc' = "done"
  /\ UNCHANGED <<concert_id_list, film_id_list, data, all_seasons, season_dict,
                 concerts, all_films, cur, exit_code, fetches, catalog, handled,
                 arg, ret>>

\* end of scrape_films: the one write, then normal exit
WriteFilms ==
  /\ pc = "films"
  /\ all_films = <<>>
  /\ WriteOutput("films")
  /\ pc' = "done"
  /\ UNCHANGED <<concert_id_list, film_id_list, data, all_seasons, season_dict,
                 concerts, all_films, cur, exit_code, fetches, catalog, handled,
                 arg, ret>>

Next ==
  \/ ScrapeSeasons
  \/ HandleSeason
  \/ HandleConcert
  \/ ExtractConcert
  \/ FinishSeason
  \/ WriteSeasons
  \/ ScrapeFilms
  \/ HandleFilm
  \/ ExtractFilm
  \/ WriteFilms

Spec == Init /\ [][Next]_vars

\* ------------------------------------------------------------------------
\* The functions on their own: one call on an input drawn by the Init
\* ------------------------------------------------------------------------
NoWalker ==
  /\ concert_id_list = {}
  /\ film_id_list = {}
  /\ data = <<>>
  /\ all_seasons = <<>>
  /\ season_dict = NoSeason
  /\ concerts = <<>>
  /\ all_films = <<>>
  /\ cur = <<>>
  /\ files = <<>>
  /\ exit_code = 0
  /\ fetches = <<>>
  /\ catalog = <<>>
  /\ handled = <<>>

Return(value) ==
  /\ pc = "call"
  /\ ret' = value
  /\ pc' = "return"
  /\ UNCHANGED <<walker_rest, arg>>

\* __get_streams on any answer of the endpoint
InitStreams ==
  /\ pc = "call"
  /\ arg \in Responses(Envelopes(PieceIds, Urls, MaxCandidates), NoEnvelope, TRUE)
  /\ ret = <<>>
  /\ NoWalker

CallGetStreams == Return(GetStreams(arg))

SpecStreams == InitStreams /\ [][CallGetStreams]_vars

\* the piece loop body on any header (no artist fragment)
SampleStreams == [k \in {"p1"} |-> "u1"]

InitHeader ==
  /\ pc = "call"
  /\ \E h \in SeqsUpTo(HeaderNodes, MaxHeader) :
       arg = [piece |-> Piece("p1", TRUE, TRUE, h, FALSE, <<>>), streams |-> SampleStreams]
  /\ ret = <<>>
  /\ NoWalker

\* the piece loop body on any artist fragment, present or not
InitFragment ==
  /\ pc = "call"
  /\ \/ arg = [piece |-> PlainPiece, streams |-> SampleStreams]
     \/ \E c \in SeqsUpTo(FragmentNodes, MaxFragment) :
          arg = [piece |-> Piece("p2", TRUE, TRUE, PlainPiece.h2, TRUE, c),
                 streams |-> SampleStreams]
  /\ ret = <<>>
  /\ NoWalker

CallExtractPiece == Return(ExtractPiece(arg.piece, arg.streams))

SpecHeader == InitHeader /\ [][CallExtractPiece]_vars
SpecFragment == InitFragment /\ [][CallExtractPiece]_vars

\* __extract_metadata on any concert page
BadPiece == Piece("p1", FALSE, TRUE, <<>>, FALSE, <<>>)

ConcertPages ==
  {ConcertPage(h1, desc, tabs1, meta, main, stars, support, pieces) :
     h1 \in Option({SampleText}), desc \in Option({SampleText}),
     tabs1 \in Option({SampleText}), meta \in Option(MetaContents),
     main \in Option(MainContents), stars \in SeqsUpTo({SampleText}, 1),
     support \in Option({SampleText}),
     pieces \in {<<>>, <<SamplePiece, PlainPiece>>, <<SamplePiece, BadPiece>>}}

InitConcert ==
  /\ pc = "call"
  /\ \E page \in ConcertPages :
       arg = [concert_id |-> "1", page |-> page, streams |-> SampleStreams]
  /\ ret = <<>>
  /\ NoWalker

CallExtractMetadata == Return(ExtractMetadata(arg.concert_id, arg.page, arg.streams))

SpecConcert == InitConcert /\ [][CallExtractMetadata]_vars

\* ------------------------------------------------------------------------
\* Properties of a run
\* ------------------------------------------------------------------------
RunMode == IF fetches = <<>> THEN "none" ELSE fetches[1].kind

RECURSIVE ConcertsIn(_)
ConcertsIn(seasons) ==
  IF seasons = <<>> THEN <<>> ELSE Head(seasons).concerts \o ConcertsIn(Tail(seasons))

\* the Concert records accumulated so far, and the Film records
OutConcerts ==
  IF RunMode = "seasons" THEN ConcertsIn(data) \o season_dict.concerts ELSE <<>>
OutFilms == IF RunMode = "films" THEN data ELSE <<>>

IsAccumulated(h) == h.fate = "accumulated"
Accumulated == SelectSeq(handled, IsAccumulated)

ItemFetched(kinds, id) ==
  \E i \in 1..Len(fetches) : fetches[i].kind \in kinds /\ fetches[i].id = id

\* C1 (state part): an id of the seen list of the run's kind is never the
\* subject of a page fetch or of a stream lookup, has no record in the
\* batch, and every time it came up it was skipped.
SkipLawState ==
  /\ RunMode = "seasons" =>
       \A id \in concert_id_list :
         /\ ~ItemFetched({"concert", "streams"}, id)
         /\ \A i \in 1..Len(OutConcerts) : OutConcerts[i].concertId # id
         /\ \A i \in 1..Len(handled) : handled[i].id = id => handled[i].fate = "skipped"
  /\ RunMode = "films" =>
       \A id \in film_id_list :
         /\ ~ItemFetched({"film", "streams"}, id)
         /\ \A i \in 1..Len(OutFilms) : OutFilms[i].film_id # id
         /\ \A i \in 1..Len(handled) : handled[i].id = id => handled[i].fate = "skipped"

\* C1 (step part): with a seen id next in line, the next step of the run
\* moves on to the item after it and the process does not end.
SkipContinues ==
  /\ (pc = "concerts" /\ concerts # <<>> /\ Head(concerts) \in concert_id_list)
       => (pc' = "concerts" /\ concerts' = Tail(concerts))
  /\ (pc = "films" /\ all_films # <<>> /\ Head(all_films).film_id \in film_id_list)
       => (pc' = "films" /\ all_films' = Tail(all_films))

\* C1: skip law - a concert id (scrape_seasons) or film id (scrape_films) of
\* the seen list gets no page fetch, no stream lookup and no record, and the
\* run goes on with the next item.
SkipLaw == []SkipLawState /\ [][SkipContinues]_vars

\* a run that skipped an item and accumulated the one after it
SkipLawWitness ==
  /\ pc = "done"
  /\ \E i \in 1..(Len(handled) - 1) :
       /\ handled[i].fate = "skipped"
       /\ handled[i + 1].fate = "accumulated"

\* C2: fail-fast - a fetch that ended in a transport error, a bad status, a
\* body that is not JSON where JSON is expected or an envelope with
\* success = false is the last fetch of the run, the process has ended
\* with a nonzero status and no output file has been written.
FailFast ==
  \A i \in 1..Len(fetches) :
    fetches[i].failed =>
      /\ i = Len(fetches)
      /\ pc = "exited"
      /\ exit_code # 0
      /\ files = <<>>

\* a stream lookup failed after an item had already been accumulated
FailFastWitness ==
  /\ pc = "exited"
  /\ Len(Accumulated) > 0
  /\ fetches[Len(fetches)].kind = "streams"
  /\ fetches[Len(fetches)].failed

\* C3: the batch is written at most once; a run that completed has written
\* it exactly once; and a write has happened only when every item the
\* listings gave has been gone through, in order, each skipped or
\* accumulated, nothing is left to handle, and the file holds the batch
\* with one record per accumulated item.
WriteOnce ==
  /\ Len(files) <= 1
  /\ pc = "done" => (Len(files) = 1 /\ exit_code = 0)
  /\ files # <<>> =>
       /\ pc = "done"
       /\ all_seasons = <<>> /\ concerts = <<>> /\ all_films = <<>> /\ cur = <<>>
       /\ Len(handled) = Len(catalog)
       /\ \A i \in 1..Len(catalog) :
            /\ handled[i].id = catalog[i]
            /\ handled[i].fate \in {"skipped", "accumulated"}
       /\ files[1].content = data
       /\ Len(OutConcerts) + Len(OutFilms) = Len(Accumulated)

\* a completed run that went through several items, skipping and accumulating
WriteOnceWitness ==
  /\ files # <<>>
  /\ Len(handled) >= 2
  /\ \E i, j \in 1..Len(handled) :
       handled[i].fate = "skipped" /\ handled[j].fate = "accumulated"

\* C4: no concertId is in two Concert records and no filmId in two Film
\* records of the batch of one run, whatever the listings repeat.
UniqueIds ==
  /\ \A i, j \in 1..Len(OutConcerts) :
       i # j => OutConcerts[i].concertId # OutConcerts[j].concertId
  /\ \A i, j \in 1..Len(OutFilms) :
       i # j => OutFilms[i].film_id # OutFilms[j].film_id

\* the streamUrl a record must carry given the stream map resolved for it
ExpectedUrl(id, streams) ==
  IF id \in DOMAIN streams THEN streams[id] ELSE "not-found"

\* C5: every Piece of every Concert record and every Film record has a
\* streamUrl: the url the resolved stream map gives for the piece / film
\* id, or "not-found" when the map has no such key.
StreamUrlAlways ==
  /\ Len(OutConcerts) + Len(OutFilms) = Len(Accumulated)
  /\ \A k \in 1..Len(OutConcerts) :
       \A n \in 1..Len(OutConcerts[k].pieces) :
         LET piece == OutConcerts[k].pieces[n]
         IN  /\ Has(piece, "streamUrl")
             /\ piece.streamUrl = ExpectedUrl(piece.pieceId, Accumulated[k].streams)
  /\ \A k \in 1..Len(OutFilms) :
       /\ Has(OutFilms[k], "streamUrl")
       /\ OutFilms[k].streamUrl = ExpectedUrl(OutFilms[k].film_id, Accumulated[k].streams)

\* a batch with a resolved Film and an unresolved one, or a Concert whose
\* pieces are one resolved and one not
StreamUrlWitness ==
  \/ \E i, j \in 1..Len(OutFilms) :
       OutFilms[i].streamUrl = "u1" /\ OutFilms[j].streamUrl = "not-found"
  \/ \E k \in 1..Len(OutConcerts) :
       \E m, n \in 1..Len(OutConcerts[k].pieces) :
         /\ OutConcerts[k].pieces[m].streamUrl = "u1"
         /\ OutConcerts[k].pieces[n].streamUrl = "not-found"

\* ------------------------------------------------------------------------
\* Properties of the stream resolver
\* ------------------------------------------------------------------------
\* C6: first-candidate selection - on a success envelope whose lists are all
\* non-empty the resolver returns a map with exactly the envelope's keys,
\* each mapped to the url of the first candidate of its list.
FirstCandidate ==
  (/\ pc = "return"
   /\ arg.status = "ok" /\ arg.json /\ arg.body.success
   /\ \A k \in DOMAIN arg.body.urls : arg.body.urls[k] # <<>>)
  => /\ ret.kind = "ok"
     /\ DOMAIN ret.streams = DOMAIN arg.body.urls
     /\ \A k \in DOMAIN arg.body.urls : ret.streams[k] = Head(arg.body.urls[k]).url

\* a resolved map with a key whose list has a different second candidate
FirstCandidateWitness ==
  /\ pc = "return"
  /\ ret.kind = "ok"
  /\ \E k \in DOMAIN arg.body.urls :
       /\ Len(arg.body.urls[k]) >= 2
       /\ arg.body.urls[k][2].url # arg.body.urls[k][1].url

\* ------------------------------------------------------------------------
\* Properties of the piece extraction
\* ------------------------------------------------------------------------
Max(S) == CHOOSE x \in S : \A y \in S : y <= x
Min(S) == CHOOSE x \in S : \A y \in S : x <= y

RECURSIVE Ascending(_)
Ascending(S) == IF S = {} THEN <<>> ELSE <<Min(S)>> \o Ascending(S \ {Min(S)})

\* the comma-delimited groups of a fragment, stated on positions: a group
\* starts at a node that is not a bare comma and has none before it, and
\* runs up to the next bare comma
CommaAt(c, i) == c[i].name = "text" /\ Strip(c[i].text) = <<",">>
GroupStarts(c) ==
  {i \in 1..Len(c) : ~CommaAt(c, i) /\ (i = 1 \/ CommaAt(c, i - 1))}
GroupEnd(c, i) ==
  Max({j \in i..Len(c) : \A k \in i..j : ~CommaAt(c, k)})
FragmentGroups(c) ==
  LET starts == Ascending(GroupStarts(c))
  IN  [n \in 1..Len(starts) |-> SubSeq(c, starts[n], GroupEnd(c, starts[n]))]

HasNode(g, name) == \E i \in 1..Len(g) : g[i].name = name
\* the text a group gives for a node name: that of its last such node
TextOf(g, name, default) ==
  IF HasNode(g, name)
  THEN Strip(g[Max({i \in 1..Len(g) : g[i].name = name})].text)
  ELSE default
RoleOf(g) == TextOf(g, "em", KEINE_ROLLE)
PlayerOf(g) == TextOf(g, "strong", KEINER)

\* the players, in fragment order, of the groups with the given role
PlayersOf(gs, role) ==
  LET ks == Ascending({k \in 1..Len(gs) : RoleOf(gs[k]) = role})
  IN  [n \in 1..Len(ks) |-> PlayerOf(gs[ks[n]])]
FirstSeen(gs, role) == Min({k \in 1..Len(gs) : RoleOf(gs[k]) = role})

ArgGroups == IF arg.piece.hasP THEN FragmentGroups(arg.piece.p) ELSE <<>>

\* C7: fold-by-role - when a piece gets an artists field, its roles are
\* pairwise distinct, are exactly the roles of the fragment's groups in
\* first-seen order, and each entry's names are the players, in fragment
\* order, of all the groups with that role.
FoldByRoleLaw ==
  (pc = "return" /\ Has(ret.dict, "artists")) =>
    LET A == ret.dict.artists
        gs == ArgGroups
    IN  /\ \A i, j \in 1..Len(A) : i # j => A[i].role # A[j].role
        /\ {A[i].role : i \in 1..Len(A)} = {RoleOf(gs[k]) : k \in 1..Len(gs)}
        /\ \A i, j \in 1..Len(A) :
             i < j => FirstSeen(gs, A[i].role) < FirstSeen(gs, A[j].role)
        /\ \A i \in 1..Len(A) : A[i].names = PlayersOf(gs, A[i].role)

\* two groups with one role text and different players, next to another role
FoldByRoleWitness ==
  /\ pc = "return"
  /\ Has(ret.dict, "artists")
  /\ Len(ret.dict.artists) >= 2
  /\ \E i \in 1..Len(ret.dict.artists) :
       /\ Len(ret.dict.artists[i].names) = 2
       /\ ret.dict.artists[i].names[1] # ret.dict.artists[i].names[2]

\* every group is in the artists field under its role, the sentinels
\* standing for a role or a player the group does not have
GroupsListed(A, gs) ==
  \A k \in 1..Len(gs) :
    \E i \in 1..Len(A) :
      /\ A[i].role = RoleOf(gs[k])
      /\ \E n \in 1..Len(A[i].names) : A[i].names[n] = PlayerOf(gs[k])

\* C8 as stated: no artists field when the fragment is absent or is one
\* group with neither a strong nor an em node; an artists field, with the
\* sentinels for what is missing, in every other case of a present fragment.
ArtistsAbsentOnlyIfBare ==
  pc = "return" =>
    LET gs == ArgGroups
        bare == \/ ~arg.piece.hasP
                \/ (Len(gs) = 1 /\ ~HasNode(gs[1], "strong") /\ ~HasNode(gs[1], "em"))
    IN  /\ bare => ~Has(ret.dict, "artists")
        /\ ~bare => (Has(ret.dict, "artists") /\ GroupsListed(ret.dict.artists, gs))

\* C8 amended: no artists field when the fragment is absent, has no group
\* at all, or is one group whose role and player both come out as the
\* sentinels; an artists field listing every group otherwise.
ArtistsAbsence ==
  pc = "return" =>
    LET gs == ArgGroups
        none == \/ ~arg.piece.hasP
                \/ Len(gs) = 0
                \/ (Len(gs) = 1 /\ RoleOf(gs[1]) = KEINE_ROLLE /\ PlayerOf(gs[1]) = KEINER)
    IN  /\ none => ~Has(ret.dict, "artists")
        /\ ~none => (Has(ret.dict, "artists") /\ GroupsListed(ret.dict.artists, gs))

\* a fragment that is there but holds bare commas only: no artists field
ArtistsAbsenceWitness ==
  /\ pc = "return"
  /\ arg.piece.hasP
  /\ arg.piece.p # <<>>
  /\ Len(ArgGroups) = 0
  /\ ~Has(ret.dict, "artists")

\* C10: piece header fallback - with no strong node before the first br and
\* no br, the description is the text of the whole header; with a br, it
\* is the joined text of the nodes after the first br; with a strong node
\* and no br, the piece has a composer and no description.
BrAt(h) == {i \in 1..Len(h) : h[i].name = "br"}
ComposerFound(h) ==
  \E i \in 1..Len(h) : h[i].name = "strong" /\ \A j \in BrAt(h) : i < j

HeaderFallback ==
  pc = "return" =>
    LET h == arg.piece.h2
        d == ret.dict
    IN  /\ (~ComposerFound(h) /\ BrAt(h) = {}) =>
             (Has(d, "description") /\ d.description = JoinedText(h))
        /\ BrAt(h) # {} =>
             /\ Has(d, "description")
             /\ d.description = JoinedText(SubSeq(h, Min(BrAt(h)) + 1, Len(h)))
        /\ (ComposerFound(h) /\ BrAt(h) = {}) =>
             (Has(d, "composer") /\ ~Has(d, "description"))
        /\ Has(d, "composer") <=> ComposerFound(h)

\* a header of text nodes only, whose texts the description joins
HeaderFallbackWitness ==
  /\ pc = "return"
  /\ Len(arg.piece.h2) >= 2
  /\ BrAt(arg.piece.h2) = {}
  /\ ~ComposerFound(arg.piece.h2)
  /\ ret.dict.description # <<>>
  /\ ~Has(ret.dict, "composer")

\* ------------------------------------------------------------------------
\* Properties of the concert extraction
\* ------------------------------------------------------------------------
\* the fragments a Concert cannot do without: the date in p.concertMeta
\* and, for every piece, its div.jsConcertWork and its h2
MandatoryPresent(page) ==
  /\ ~IsNone(page.concertMeta)
  /\ The(page.concertMeta) # <<>>
  /\ The(page.concertMeta)[1].name = "text"
  /\ Len(The(page.concertMeta)) = 3 => The(page.concertMeta)[3].name = "text"
  /\ \A n \in 1..Len(page.pieces) : page.pieces[n].hasWork /\ page.pieces[n].hasH2

\* C9: on a concert page whose mandatory fragments are there, whichever
\* optional top-level fragment is absent, the extraction returns a Concert
\* record (no exception ends the run) and the record has a field exactly
\* for the fragments that are present.
OptionalOmitted ==
  (pc = "return" /\ MandatoryPresent(arg.page)) =>
    /\ ret.kind = "ok"
    /\ Has(ret.dict, "concertTitle") <=> ~IsNone(arg.page.h1)
    /\ Has(ret.dict, "concertProgramme") <=> ~IsNone(arg.page.description)
    /\ Has(ret.dict, "concertProgrammeGuide") <=> ~IsNone(arg.page.tabs1)
    /\ Has(ret.dict, "concertMeta") <=> Len(The(arg.page.concertMeta)) = 3
    /\ Has(ret.dict, "mainArtist") <=>
         (~IsNone(arg.page.mainArtist) /\ The(arg.page.mainArtist) # <<>>)
    /\ Has(ret.dict, "conductor") <=>
         (~IsNone(arg.page.mainArtist) /\ Len(The(arg.page.mainArtist)) = 3)
    /\ Has(ret.dict, "starArtists") <=> arg.page.starArtists # <<>>
    /\ Has(ret.dict, "support") <=> ~IsNone(arg.page.support)

\* ------------------------------------------------------------------------
\* The composer of a piece header
\* ------------------------------------------------------------------------
StrongAt(h) == {i \in 1..Len(h) : h[i].name = "strong"}
\* the strong nodes the loop gets to: those before the first br
StrongBeforeBr(h) == {i \in StrongAt(h) : \A j \in BrAt(h) : i < j}

\* C11 as stated: a header with a strong node gives the piece the text of
\* its first strong node as composer, however many there are and wherever
\* the br is.
ComposerIsFirstStrong ==
  (pc = "return" /\ StrongAt(arg.piece.h2) # {}) =>
    /\ Has(ret.dict, "composer")
    /\ ret.dict.composer = Strip(arg.piece.h2[Min(StrongAt(arg.piece.h2))].text)

\* C11 amended: a header with a strong node before its first br (or with a
\* strong node and no br) gives the piece the text of the last strong node
\* that precedes the first br as composer; a header whose strong nodes all
\* come after the first br gives no composer.
ComposerIsLastBeforeBr ==
  (pc = "return" /\ StrongAt(arg.piece.h2) # {}) =>
    LET h == arg.piece.h2
    IN  IF StrongBeforeBr(h) # {}
        THEN /\ Has(ret.dict, "composer")
             /\ ret.dict.composer = Strip(h[Max(StrongBeforeBr(h))].text)
        ELSE ~Has(ret.dict, "composer")

\* two strong nodes of different text before the br, and one after it
ComposerWitness ==
  /\ pc = "return"
  /\ BrAt(arg.piece.h2) # {}
  /\ Cardinality(StrongBeforeBr(arg.piece.h2)) = 2
  /\ StrongAt(arg.piece.h2) # StrongBeforeBr(arg.piece.h2)
  /\ Has(ret.dict, "composer")
  /\ ret.dict.composer # Strip(arg.piece.h2[Min(StrongAt(arg.piece.h2))].text)

====
